---------------------------- MODULE Spec2Model ----------------------------
(***************************************************************************)
(* A model of regex-replace-loader (src/index.js): the webpack loader that *)
(* rewrites a source buffer by the regular-expression substitutions its    *)
(* options describe.                                                       *)
(*                                                                         *)
(* JavaScript values are tagged records [type, ...]; a string is a         *)
(* sequence of one-character strings, so that it can be scanned.           *)
(***************************************************************************)
EXTENDS Integers, Sequences, FiniteSets, TLC

\* Longest source buffer handed to the loader.
MaxLen == 2

\* Longest `stages` array of the options.
MaxStages == 2

---------------------------------------------------------------------------
(* JavaScript values *)

Str(s) == [type |-> "String", val |-> s]

Num(n) == [type |-> "Number", val |-> n]

Bool(b) == [type |-> "Boolean", val |-> b]

RegExpObj(src, g) == [type |-> "RegExp", val |-> [source |-> src, global |-> g]]

Fn(name) == [type |-> "Function", val |-> name]

Arr(elems) == [type |-> "Array", val |-> elems]

Undefined == [type |-> "Undefined", val |-> "undefined"]

\* ToBoolean of the values an `enable` option takes here.
Truthy(x) ==
    IF x.type = "Boolean" THEN x.val ELSE x.type \notin {"Undefined"}

NAME == "Regex Replace Loader"

\* Outcome of a call: a returned value, or a thrown Error.
Returned(v) == [threw |-> FALSE, val |-> v, error |-> "", calls |-> <<>>]

Thrown(e) == [threw |-> TRUE, val |-> Undefined, error |-> e, calls |-> <<>>]

\* Error messages of the loader, and the engine's own for bad flags.
RegexTypeError == <<NAME, ": option \"regex\" must be a string or a RegExp object">>

ValueTypeError == <<NAME, ": option \"value\" must be a string or a function">>

FlagsSyntaxError == <<"SyntaxError", ": Invalid flags supplied to RegExp constructor">>

typeOf(object) == object.type

---------------------------------------------------------------------------
(* The regular-expression engine, for the pattern language of the model:   *)
(* a literal character, "." (any character), "^" (start of input) and      *)
(* capture groups "(" ... ")".                                             *)

NoMatch == [ok |-> FALSE, index |-> 0, end |-> 0, caps |-> <<>>]

RECURSIVE MatchTokens(_, _, _, _, _, _)
\* Match tokens k.. of src against s at offset p (0-based); opens is the stack
\* of open groups, caps the captures so far.
MatchTokens(src, s, k, p, opens, caps) ==
    IF k > Len(src) THEN [ok |-> TRUE, index |-> 0, end |-> p, caps |-> caps]
    ELSE LET tok == src[k] IN
      CASE tok = "^" ->
             IF p = 0 THEN MatchTokens(src, s, k + 1, p, opens, caps) ELSE NoMatch
        [] tok = "(" ->
             MatchTokens(src, s, k + 1, p,
                         Append(opens, [n |-> Len(caps) + 1, start |-> p]),
                         Append(caps, <<>>))
        [] tok = ")" ->
             LET top == opens[Len(opens)] IN
             MatchTokens(src, s, k + 1, p, SubSeq(opens, 1, Len(opens) - 1),
                         [caps EXCEPT ![top.n] = SubSeq(s, top.start + 1, p)])
        [] tok = "." ->
             IF p < Len(s) THEN MatchTokens(src, s, k + 1, p + 1, opens, caps)
             ELSE NoMatch
        [] OTHER ->
             IF p < Len(s) /\ s[p + 1] = tok
             THEN MatchTokens(src, s, k + 1, p + 1, opens, caps)
             ELSE NoMatch

RECURSIVE RegExpExec(_, _, _)
\* RegExp.prototype.exec from lastIndex: the leftmost match at or after it.
RegExpExec(src, s, lastIndex) ==
    IF lastIndex > Len(s) THEN NoMatch
    ELSE LET m == MatchTokens(src, s, 1, lastIndex, <<>>, <<>>) IN
         IF m.ok THEN [m EXCEPT !.index = lastIndex]
         ELSE RegExpExec(src, s, lastIndex + 1)

RECURSIVE RegExpResults(_, _, _, _)
\* The results RegExp.prototype[Symbol.replace] collects: one exec without the
\* g flag, else exec until null, stepping over an empty match.
RegExpResults(src, global, s, lastIndex) ==
    LET m == RegExpExec(src, s, lastIndex) IN
    IF ~m.ok THEN <<>>
    ELSE IF ~global THEN <<m>>
    ELSE <<m>> \o RegExpResults(src, TRUE, s,
                                IF m.end = m.index THEN m.end + 1 ELSE m.end)

RECURSIVE IndexOf(_, _, _)
\* String.prototype.indexOf: the first offset >= from where search occurs, or -1.
IndexOf(s, search, from) ==
    IF from + Len(search) > Len(s) THEN -1
    ELSE IF SubSeq(s, from + 1, from + Len(search)) = search THEN from
    ELSE IndexOf(s, search, from + 1)

\* The matches String.prototype.replace substitutes: for a string pattern the
\* first literal occurrence, for a RegExp the results above.
ReplaceResults(s, pattern) ==
    IF pattern.type = "String"
    THEN LET pos == IndexOf(s, pattern.val, 0) IN
         IF pos = -1 THEN <<>>
         ELSE <<[ok |-> TRUE, index |-> pos, end |-> pos + Len(pattern.val),
                 caps |-> <<>>]>>
    ELSE RegExpResults(pattern.val.source, pattern.val.global, s, 0)

---------------------------------------------------------------------------
(* String.prototype.replace *)

DigitChars == <<"0", "1", "2", "3", "4", "5", "6", "7", "8", "9">>

RECURSIVE ToStr(_)
\* Number to decimal string.
ToStr(n) ==
    IF n < 10 THEN <<DigitChars[n + 1]>>
    ELSE ToStr(n \div 10) \o <<DigitChars[(n % 10) + 1]>>

\* The capture number a template character names ("1".."9"), or 0.
DigitValue(c) ==
    IF \E d \in 1..9 : DigitChars[d + 1] = c
    THEN CHOOSE d \in 1..9 : DigitChars[d + 1] = c
    ELSE 0

RECURSIVE GetSubstitution(_, _, _, _)
\* Expansion of a replacement template from position k: "$$", "$&" and "$n"
\* (n a capture of the match) are substituted, everything else is literal.
GetSubstitution(matched, captures, template, k) ==
    IF k > Len(template) THEN <<>>
    ELSE IF template[k] = "$" /\ k < Len(template)
    THEN LET c == template[k + 1] IN
         IF c = "$"
         THEN <<"$">> \o GetSubstitution(matched, captures, template, k + 2)
         ELSE IF c = "&"
         THEN matched \o GetSubstitution(matched, captures, template, k + 2)
         ELSE IF DigitValue(c) \in 1..Len(captures)
         THEN captures[DigitValue(c)]
              \o GetSubstitution(matched, captures, template, k + 2)
         ELSE <<"$">> \o GetSubstitution(matched, captures, template, k + 1)
    ELSE <<template[k]>> \o GetSubstitution(matched, captures, template, k + 1)

\* The value functions the options may carry (user code): each maps the match
\* object it is given to a string.
\*   swap: function (m) { return (m[2] || '') + (m[1] || '') }
\*   idx:  function (m) { return String(m.index) }
ValueFns == {"swap", "idx"}

Key(match, k) == IF k \in DOMAIN match.keys THEN match.keys[k].val ELSE <<>>

CallValueFn(valueFn, match) ==
    IF valueFn = "swap" THEN Str(Key(match, 2) \o Key(match, 1))
    ELSE IF match.index.type = "Number" THEN Str(ToStr(match.index.val))
    ELSE Str(match.index.val)

\* A mutant of MatchObject: `index` and `input` read the wrong arguments.
MatchObjectSwapped(args) ==
    LET len == Len(args) IN
    [keys |-> [i \in 0..(len - 3) |-> args[i + 1]],
     index |-> args[len],
     input |-> args[len - 1]]

\* The object the adapter builds from its arguments: all but the last two at
\* their positions, then `index` and `input`.
MatchObject(args) ==
    LET len == Len(args) IN
    [keys |-> [i \in 0..(len - 3) |-> args[i + 1]],
     index |-> args[len - 1],
     input |-> args[len]]

\* The closure getMatchFn returns, and a call of it.
getMatchFn(valueFn) == [type |-> "Function", val |-> <<"matchFn", valueFn.val>>]

CallMatchFn(matchFn, args) ==
    LET match == MatchObject(args)
        ret == CallValueFn(matchFn.val[2], match)
    IN  [args |-> args, match |-> match, ret |-> ret]

\* The arguments replace passes to a replacement function for one match.
ReplacerArgs(s, r) ==
    <<Str(SubSeq(s, r.index + 1, r.end))>>
    \o [k \in 1..Len(r.caps) |-> Str(r.caps[k])]
    \o <<Num(r.index), Str(s)>>

RECURSIVE Substitute(_, _, _, _, _)
\* The new string from results k.., having copied the input up to nextPos.
Substitute(s, results, k, nextPos, replaceValue) ==
    IF k > Len(results)
    THEN [out |-> SubSeq(s, nextPos + 1, Len(s)), calls |-> <<>>]
    ELSE LET r == results[k]
             call == CallMatchFn(replaceValue, ReplacerArgs(s, r))
             isFn == replaceValue.type = "Function"
             rep == IF isFn THEN call.ret.val
                    ELSE GetSubstitution(SubSeq(s, r.index + 1, r.end), r.caps,
                                         replaceValue.val, 1)
             rest == Substitute(s, results, k + 1, r.end, replaceValue)
         IN  [out |-> SubSeq(s, nextPos + 1, r.index) \o rep \o rest.out,
              calls |-> (IF isFn THEN <<call>> ELSE <<>>) \o rest.calls]

\* source.replace(pattern, replaceValue)
StringReplace(s, pattern, replaceValue) ==
    Substitute(s, ReplaceResults(s, pattern), 1, 0, replaceValue)

---------------------------------------------------------------------------
(* The loader's helpers *)

\* new RegExp(regex, flags) of a RegExp object: undefined flags keep the
\* object's own, other flags replace them, and an invalid flags string throws
\* (of the valid flags the model has "g" only).
NewRegExp(regex, flags) ==
    IF flags.type = "Undefined" THEN Returned(regex)
    ELSE IF flags.val \in {<<>>, <<"g">>}
    THEN Returned(RegExpObj(regex.val.source, Len(flags.val) > 0))
    ELSE Thrown(FlagsSyntaxError)

getRegex(regex, flags) ==
    IF typeOf(regex) = "String" THEN Returned(regex)
    ELSE IF typeOf(regex) = "RegExp" THEN NewRegExp(regex, flags)
    ELSE Thrown(RegexTypeError)

getValueOrMatchFn(value) ==
    IF value.type = "Function" THEN Returned(getMatchFn(value))
    ELSE IF value.type = "String" THEN Returned(value)
    ELSE Thrown(ValueTypeError)

replace(regex, source, options) ==
    LET valueOrFn == getValueOrMatchFn(options.value) IN
    IF valueOrFn.threw THEN valueOrFn
    ELSE LET r == StringReplace(source, regex, valueOrFn.val) IN
         [Returned(r.out) EXCEPT !.calls = r.calls]

\* A mutant of RunStage: the value is resolved before the pattern.
RunStageValueFirst(stage, source) ==
    LET valueOrFn == getValueOrMatchFn(stage.value)
        regex == getRegex(stage.regex, stage.flags)
    IN  IF valueOrFn.threw THEN valueOrFn
        ELSE IF regex.threw THEN regex
        ELSE replace(regex.val, source, stage)

\* The body of the forEach callback for an enabled stage.
RunStage(stage, source) ==
    LET regex == getRegex(stage.regex, stage.flags) IN
    IF regex.threw THEN regex ELSE replace(regex.val, source, stage)

\* A mutant of Stages: the array is walked from its end.
StagesReversed(options) ==
    IF options.stages.type = "Array"
    THEN [i \in 1..Len(options.stages.val) |->
             options.stages.val[Len(options.stages.val) + 1 - i]]
    ELSE <<options>>

\* The stages the loader walks.
Stages(options) ==
    IF options.stages.type = "Array" THEN options.stages.val ELSE <<options>>

\* A mutant of StageEnabled: a stage runs unless `enable` is false.
StageEnabledUnlessFalse(stage) == stage.enable # Bool(FALSE)

\* if (stage.enable)
StageEnabled(stage) == Truthy(stage.enable)

---------------------------------------------------------------------------
(* Inputs *)

Alphabet == {"a", "b", "^"}

SeqsUpTo(S, n) == UNION {[1..k -> S] : k \in 0..n}

Buffers == SeqsUpTo(Alphabet, MaxLen)

PatternSources ==
    {<<"a">>, <<".">>, <<"^", "a">>, <<"(", "a", ")", "(", ".", ")">>}

Regexes ==
    {Str(p) : p \in PatternSources}
    \cup {RegExpObj(p, g) : p \in PatternSources, g \in BOOLEAN}
    \cup {Num(42)}

Flags == {Undefined, Str(<<>>), Str(<<"g">>), Str(<<"z">>)}

Values ==
    {Str(<<"X">>), Str(<<"$", "1">>), Num(42)} \cup {Fn(f) : f \in ValueFns}

Enables == {Bool(TRUE), Bool(FALSE), Undefined}

Stage(e, r, f, v) == [enable |-> e, regex |-> r, flags |-> f, value |-> v]

\* Every stage configuration, for options of one stage.
StageConfigs ==
    {Stage(e, r, f, v) : e \in Enables, r \in Regexes, f \in Flags, v \in Values}

\* The stage configurations of longer `stages` arrays.
ChainConfigs ==
    {Stage(e, r, Undefined, v) :
        e \in Enables,
        r \in {Str(<<"a">>), RegExpObj(<<"b">>, TRUE), Num(42)},
        v \in {Str(<<"b">>), Str(<<"X">>), Num(42)}}

StageArrays ==
    {<<st>> : st \in StageConfigs}
    \cup {a \in SeqsUpTo(ChainConfigs, MaxStages) : Len(a) # 1}

\* The options object: one stage's fields at the top level, or a `stages` array.
OptionsSet ==
    {[stages |-> Undefined, enable |-> st.enable, regex |-> st.regex,
      flags |-> st.flags, value |-> st.value] : st \in StageConfigs}
    \cup {[stages |-> Arr(a), enable |-> Undefined, regex |-> Undefined,
           flags |-> Undefined, value |-> Undefined] : a \in StageArrays}

---------------------------------------------------------------------------
(* regexReplaceLoader(source), one forEach callback at a time *)

VARIABLES
    options,   \* getOptions(this)
    input,     \* the source the loader was called with
    source,    \* the `source` variable of the call
    idx,       \* the index forEach visits next (1-based)
    pc,        \* "forEach", "returned" or "thrown"
    result,    \* the value returned
    error,     \* the Error thrown
    trace,     \* the callbacks that ran their body: stage index, source in and out
    calls      \* the value-function calls made, with the stage that made them

vars == <<options, input, source, idx, pc, result, error, trace, calls>>

NoError == <<"", "">>

Init ==
    /\ options \in OptionsSet
    /\ input \in Buffers
    /\ source = input
    /\ idx = 1
    /\ pc = "forEach"
    /\ result = Undefined
    /\ error = NoError
    /\ trace = <<>>
    /\ calls = <<>>

\* The callback on a stage that is not enabled: nothing happens.
Skip ==
    /\ pc = "forEach"
    /\ idx <= Len(Stages(options))
    /\ ~StageEnabled(Stages(options)[idx])
    /\ idx' = idx + 1
    /\ UNCHANGED <<options, input, source, pc, result, error, trace, calls>>

\* The callback on an enabled stage whose pattern and value resolve.
Apply ==
    /\ pc = "forEach"
    /\ idx <= Len(Stages(options))
    /\ StageEnabled(Stages(options)[idx])
    /\ LET r == RunStage(Stages(options)[idx], source) IN
       /\ ~r.threw
       /\ source' = r.val
       /\ trace' = Append(trace, [stage |-> idx, in |-> source, out |-> r.val])
       /\ calls' = calls \o [k \in 1..Len(r.calls) |->
                                [stage |-> idx, in |-> source, call |-> r.calls[k]]]
    /\ idx' = idx + 1
    /\ UNCHANGED <<options, input, pc, result, error>>

\* The callback on an enabled stage whose pattern or value is rejected: the
\* Error leaves forEach and the loader.
Throw ==
    /\ pc = "forEach"
    /\ idx <= Len(Stages(options))
    /\ StageEnabled(Stages(options)[idx])
    /\ LET r == RunStage(Stages(options)[idx], source) IN
       /\ r.threw
       /\ error' = r.error
    /\ pc' = "thrown"
    /\ UNCHANGED <<options, input, source, idx, result, trace, calls>>

\* forEach is over: return source.
Return ==
    /\ pc = "forEach"
    /\ idx > Len(Stages(options))
    /\ pc' = "returned"
    /\ result' = Str(source)
    /\ UNCHANGED <<options, input, source, idx, error, trace, calls>>

Next == Skip \/ Apply \/ Throw \/ Return

Spec == Init /\ [][Next]_vars

---------------------------------------------------------------------------
(* The options as given, and what the documentation says of them *)

IsMulti == options.stages.type = "Array"

GivenStages == IF IsMulti THEN options.stages.val ELSE <<options>>

Done == pc \in {"returned", "thrown"}

\* A stage whose pattern, flags and value all resolve.
ValidStage(st) == ~RunStage(st, <<>>).threw

\* Enabled as documented: a configuration without `stages` always is.
DocEnabled(i) == ~IsMulti \/ Truthy(GivenStages[i].enable)

\* Stage i is reached as documented: no enabled stage before it is rejected.
DocReached(i) ==
    \A j \in 1..(i - 1) : DocEnabled(j) => ValidStage(GivenStages[j])

\* The source of a pattern given as a string or as a RegExp object.
PatternSource(regex) ==
    IF regex.type = "String" THEN regex.val ELSE regex.val.source

\* The documented substitution: the pattern source, compiled, replaces every
\* match (global) or the first one.
DocReplace(st, in, global) ==
    StringReplace(in, RegExpObj(PatternSource(st.regex), global),
                  getValueOrMatchFn(st.value).val).out

NoLaterStageRan(i) == \A k \in 1..Len(trace) : trace[k].stage < i

---------------------------------------------------------------------------
(* Claims *)

\* C1: the stages run in the order given; the first enabled stage reads the
\* loader's input, every later one reads what the enabled stage before it
\* produced, each stage runs once, and the value returned is the last output.
C1_StagesInOrder ==
    /\ \A k \in 1..Len(trace) :
         /\ trace[k].in = (IF k = 1 THEN input ELSE trace[k - 1].out)
         /\ k > 1 => trace[k - 1].stage < trace[k].stage
         /\ trace[k].stage \in 1..Len(GivenStages)
         /\ Truthy(GivenStages[trace[k].stage].enable)
         /\ trace[k].out = RunStage(GivenStages[trace[k].stage], trace[k].in).val
    /\ source = (IF trace = <<>> THEN input ELSE trace[Len(trace)].out)
    /\ pc = "returned" =>
         /\ result = Str(source)
         /\ {trace[k].stage : k \in 1..Len(trace)}
              = {i \in 1..Len(GivenStages) : Truthy(GivenStages[i].enable)}

\* Two enabled stages ran, and the second replaced text the first had written
\* (on the loader's input it would have changed nothing).
C1_Witness ==
    /\ pc = "returned" /\ IsMulti /\ Len(trace) = 2
    /\ trace[1].out # trace[1].in
    /\ trace[2].out # trace[2].in
    /\ RunStage(GivenStages[trace[2].stage], input).val = input
    /\ result = Str(trace[2].out)

\* C2: a configuration without `stages` has its substitution applied whatever
\* its `enable` field is.
C2_SingleStageAlwaysEnabled ==
    (pc = "returned" /\ ~IsMulti /\ ValidStage(options)) =>
        trace = <<[stage |-> 1, in |-> input,
                   out |-> RunStage(options, input).val]>>

\* C3: a stage that ran replaced every match of its pattern in its input.
C3_GlobalReplace ==
    \A k \in 1..Len(trace) :
        trace[k].out = DocReplace(GivenStages[trace[k].stage], trace[k].in, TRUE)

\* C4: a pattern given as a string is matched as a regular expression (whether
\* every match or only the first is replaced is left open here).
C4_StringIsPatternSource ==
    \A k \in 1..Len(trace) :
        GivenStages[trace[k].stage].regex.type = "String" =>
            \E g \in BOOLEAN :
                trace[k].out = DocReplace(GivenStages[trace[k].stage], trace[k].in, g)

\* C5: in a `stages` array, the callback on a stage whose `enable` is false or
\* absent changes nothing but the position: the buffer, the outcome and the
\* record of what ran stay, and forEach goes on to the next stage.
C5_DisabledStageSkipped ==
    [][(/\ pc = "forEach" /\ IsMulti /\ idx <= Len(GivenStages)
        /\ GivenStages[idx].enable \in {Bool(FALSE), Undefined})
       => (/\ source' = source /\ trace' = trace /\ calls' = calls
           /\ error' = error /\ pc' = "forEach" /\ idx' = idx + 1)]_vars

\* A disabled first stage that would have changed the buffer was passed over,
\* and the second stage ran on the loader's input and changed it.
C5_Witness ==
    /\ IsMulti /\ Len(trace) = 1 /\ trace[1].stage = 2
    /\ ~Truthy(GivenStages[1].enable)
    /\ ValidStage(GivenStages[1])
    /\ RunStage(GivenStages[1], input).val # input
    /\ trace[1].in = input /\ trace[1].out # input

\* C6: a stage, enabled as documented and reached, whose `regex` is neither a
\* string nor a RegExp makes the call throw the loader's pattern error; that
\* stage and the later ones substitute nothing and nothing is returned.
C6_InvalidPatternRaises ==
    Done =>
      \A i \in 1..Len(GivenStages) :
        (/\ DocEnabled(i) /\ DocReached(i)
         /\ GivenStages[i].regex.type \notin {"String", "RegExp"})
        => (/\ pc = "thrown" /\ error = RegexTypeError /\ error[1] = NAME
            /\ result = Undefined /\ NoLaterStageRan(i))

\* C7: a stage, enabled as documented and reached, whose pattern resolves and
\* whose `value` is neither a string nor a function makes the call throw the
\* loader's value error, match or no match; the stage substitutes nothing.
C7_InvalidValueRaises ==
    Done =>
      \A i \in 1..Len(GivenStages) :
        (/\ DocEnabled(i) /\ DocReached(i)
         /\ ~getRegex(GivenStages[i].regex, GivenStages[i].flags).threw
         /\ GivenStages[i].value.type \notin {"String", "Function"})
        => (/\ pc = "thrown" /\ error = ValueTypeError
            /\ result = Undefined /\ NoLaterStageRan(i))

\* C6 and C7 are broken by a configuration without `stages` only: of the
\* stages of a `stages` array both hold.
C6_HoldsOfStageArrays == IsMulti => C6_InvalidPatternRaises

C7_HoldsOfStageArrays == IsMulti => C7_InvalidValueRaises

\* The number of capture groups of a resolved pattern.
GroupCount(st) ==
    IF st.regex.type = "String" THEN 0
    ELSE Cardinality({k \in 1..Len(st.regex.val.source) :
                         st.regex.val.source[k] = "("})

CallsOf(i) == SelectSeq(calls, LAMBDA c : c.stage = i)

C9_IdentityOnNoMatch ==
    (/\ Done
     /\ \A i \in 1..Len(GivenStages) :
          /\ Truthy(GivenStages[i].enable)
          /\ ValidStage(GivenStages[i])
          /\ ~RegExpExec(PatternSource(GivenStages[i].regex), input, 0).ok)
    => (pc = "returned" /\ result = Str(input))

\* The matcher of C9 read as the code resolves it: where replace finds no
\* match, the buffer is returned as it was.
C9_HoldsOfTheCodesMatcher ==
    \A k \in 1..Len(trace) :
        LET st == GivenStages[trace[k].stage] IN
        ReplaceResults(trace[k].in, getRegex(st.regex, st.flags).val) = <<>>
            => trace[k].out = trace[k].in

\* C10: only a stage with a truthy `enable` is validated, and when it is
\* reached: a call throws at such a stage only, stages with a falsy `enable`
\* never make it throw whatever their `regex` and `value`, and a stage with
\* both a bad `regex` and a bad `value` throws the pattern error.
C10_LazyValidation ==
    /\ pc = "thrown" =>
         /\ idx \in 1..Len(GivenStages)
         /\ Truthy(GivenStages[idx].enable)
         /\ ~ValidStage(GivenStages[idx])
         /\ error # NoError
         /\ (GivenStages[idx].regex.type \notin {"String", "RegExp"})
              => error = RegexTypeError
    /\ (/\ Done
        /\ \A i \in 1..Len(GivenStages) :
             ValidStage(GivenStages[i]) \/ ~Truthy(GivenStages[i].enable))
       => (pc = "returned" /\ error = NoError)

\* A first stage with `enable` false and a bad `regex` and `value` raised
\* nothing; the second, enabled and as bad, threw the pattern error.
C10_Witness ==
    /\ pc = "thrown" /\ IsMulti /\ idx = 2
    /\ \A i \in 1..2 :
         /\ GivenStages[i].regex.type = "Number"
         /\ GivenStages[i].value.type = "Number"
    /\ GivenStages[1].enable = Bool(FALSE)
    /\ GivenStages[2].enable = Bool(TRUE)
    /\ error = RegexTypeError

==========================================================================
